---- MODULE Spec2Model ----
(***************************************************************************)
(* Event ingestion and retention derivation of the analytics backend       *)
(* (app/crud.py), with the cache wrapper of app/cache.py.                   *)
(*                                                                         *)
(* The relational store is PostgreSQL at READ COMMITTED: every ingest call *)
(* owns one session whose uncommitted writes (tx[p]) are visible to that   *)
(* call only; a unique index makes a writer wait for an uncommitted        *)
(* conflicting row of another session and fail once that row is committed; *)
(* INSERT .. ON CONFLICT DO UPDATE keeps the user row locked until the     *)
(* transaction ends.  Dates are day numbers.                               *)
(***************************************************************************)
EXTENDS Integers, Sequences, FiniteSets, TLC

\* ------------------------------------------------------------------ bounds
NumProcs    == 2   \* sessions (request handlers) that can be in flight at once
NumEventIds == 4   \* distinct event identifiers clients submit
NumUsers    == 2   \* distinct user identifiers
NumDates    == 2   \* distinct occurrence dates
MaxBatch    == 2   \* longest batch submitted
MaxCalls    == 2   \* ingest calls started in one behaviour
MaxFaults   == 1   \* store errors injected in one behaviour
NumSessions == 2   \* distinct reprs (addresses) a Session object can have
MaxWindows  == 2   \* largest window count asked of the retention curve
NumKeys     == 2   \* API keys that can be generated
MaxTime     == 2   \* days the clock of the key manager advances
MaxAuthCalls == 3  \* guarded requests made in one behaviour
Capacity    == 2   \* RateLimiter.capacity
RefillRate  == 1   \* RateLimiter.refill_rate, tokens per second
MaxClock    == 2   \* largest reading of time.time(), in seconds
MaxConsume  == 2   \* largest argument of consume
MaxConsumeCalls == 3  \* consume calls made in one behaviour
NumWorkers  == 2   \* EventWorker processes in the queue group
MaxMsgs     == 3   \* messages delivered in one behaviour

Procs    == 1..NumProcs
Workers  == 1..NumWorkers
ApiKeys  == 1..NumKeys
EventIds == 1..NumEventIds
UserIds  == 1..NumUsers
Sessions == 1..NumSessions

\* The event a client submits under identifier i: a resubmission carries the
\* same user and timestamp.  Identifiers 1, 2 and 3 belong to one user:
\* identifier 1 lies on a later day than identifier 2, and (with two dates)
\* identifier 3 on the day of identifier 1.
\* event_date is occurred_at.date(), the calendar day in the UTC offset the
\* client sent (the validator of schemas.Event returns the value as sent);
\* occurred_date is the day of the value stored in the column occurred_at,
\* TIMESTAMP WITHOUT TIME ZONE, to which the store converts an offset-aware
\* value in the session's time zone.  The two agree for naive and UTC
\* timestamps; the last identifier is sent late in the evening with a
\* negative offset, so its stored day is the next one.
EventInput(i) ==
    [event_id      |-> i,
     user_id       |-> (((i - 1) \div 3) % NumUsers) + 1,
     event_date    |-> (i % NumDates) + 1,
     occurred_date |-> (i % NumDates) + 1
                       + (IF i = NumEventIds THEN 1 ELSE 0)]

RECURSIVE SeqsUpTo(_, _)
SeqsUpTo(S, n) ==
    IF n = 0 THEN {<< >>}
    ELSE LET shorter == SeqsUpTo(S, n - 1)
         IN  shorter \cup {Append(s, x) : s \in shorter, x \in S}

\* Every batch a client can post: sequences of at most MaxBatch events.
Batches == SeqsUpTo({EventInput(i) : i \in EventIds}, MaxBatch)

\* Outcome of one store round trip: success, an IntegrityError raised for a
\* constraint other than the event identifier, or any other DBAPI error.
Errors == {"none", "integrity", "other"}

VARIABLES
    events,          \* committed rows of table events
    users,           \* committed rows of table users
    retention,       \* committed rows of table user_retention
    tx,              \* per session: uncommitted rows and held user-row locks
    pc,              \* per session: position inside ingest_events
    batch,           \* per session: the events argument
    idx,             \* per session: loop index of the per-event fallback
    successful,      \* per session: the fallback's counter
    user_ids,        \* per session: the user_ids set handed to invalidation
    ret,             \* per session: value returned (-1: exception raised)
    before,          \* per session: committed rows when the call started
    path,            \* per session: route the call took through ingest_events
    cause,           \* per session: what ended the batch transaction
    seq,             \* per session: number of the call among all calls
    overlapped,      \* per session: sessions in flight at some time of the call
    calls,           \* ingest calls started so far
    faults,          \* store errors injected so far
    cache,           \* Redis: set of [key, value] entries
    redis_connected, \* redis_client.is_connected
    last,            \* outcome of the latest query call
    ops,             \* per session: store and cache operations of the call
    deleted,         \* per session: patterns handed to delete_pattern
    redis_failing,   \* the Redis server answers every command with an error
    nats,            \* message bus: "connected", "disconnected" or "failing"
    published,       \* event identifiers handed to the message bus
    user_retention_exists, \* table user_retention has been created
    api_keys,        \* committed rows of table api_keys
    now,             \* datetime.now(timezone.utc), in days
    admin_seen,      \* per create-admin-key request: admin keys counted
    revoked,         \* ids for which revoke_key returned True
    auth_last,       \* the last guarded request and its outcome
    auth_calls,      \* guarded requests made so far
    tokens,          \* RateLimiter.tokens
    last_refill,     \* RateLimiter.last_refill
    consumed,        \* argument, refill and result of the last consume call
    msgs,            \* messages delivered to the workers so far
    wpc,             \* per worker: position inside process_event
    wmsg,            \* per worker: the message being processed
    wsession,        \* per worker: state of its long-lived Session
    handled          \* outcome of every processed message

vars == <<events, users, retention, tx, pc, batch, idx, successful, user_ids,
          ret, before, path, cause, seq, overlapped, calls, faults, cache,
          redis_connected, last, ops, deleted, redis_failing, nats, published,
          user_retention_exists, api_keys, now, admin_seen, revoked, auth_last,
          auth_calls, tokens, last_refill, consumed, msgs, wpc, wmsg,
          wsession, handled>>

storeVars == <<events, users, retention>>
cacheVars == <<cache, redis_connected, last>>
\* What the environment decides once: never changed by the application.
envVars == <<redis_failing, nats, user_retention_exists>>
authVars == <<api_keys, now, admin_seen, revoked, auth_last, auth_calls>>
limiterVars == <<tokens, last_refill, consumed>>
workerVars == <<msgs, wpc, wmsg, wsession, handled>>
\* State of the components outside ingestion and analytics.
sideVars == <<authVars, limiterVars, workerVars>>
\* What an ingest call works on besides the tables and the cache.
callVars == <<tx, pc, batch, idx, successful, user_ids, ret, before, path,
              cause, seq, overlapped, calls, faults, ops, deleted, published>>
ingestVars == <<storeVars, cacheVars, envVars, callVars>>

EmptyTx == [events |-> {}, users |-> {}, retention |-> {}, locks |-> {}]

NoRows == [events |-> {}, users |-> {}, retention |-> {}]

Min(S) == CHOOSE x \in S : \A y \in S : x <= y

FreshId_Reuse(used) == 1

\* Serial primary key: the smallest value no row of the table uses.
FreshId(used) ==
    CHOOSE n \in 1..(Cardinality(used) + 1) :
        n \notin used /\ \A m \in 1..(n - 1) : m \in used

InFlight(q) == pc[q] \notin {"idle", "done"}

\* ------------------------------------------------------------ table events
\* models.py: event_id is UNIQUE.  A row with this identifier is in `rows`.
UniqueEventId_NoIndex(rows, id) == FALSE

UniqueEventId(rows, id) == \E r \in rows : r.event_id = id

PendingEvents(p) == UNION {tx[q].events : q \in Procs \ {p}}

EventRowIds == {r.id : r \in events \cup UNION {tx[q].events : q \in Procs}}

RECURSIVE EventRows(_, _)
EventRows(vals, used) ==
    IF vals = << >> THEN {}
    ELSE LET n == FreshId(used)
             e == Head(vals)
         IN  {[id |-> n, event_id |-> e.event_id, user_id |-> e.user_id,
               event_date |-> e.event_date,
               occurred_date |-> e.occurred_date]}
             \cup EventRows(Tail(vals), used \cup {n})

RepeatedInBatch_Always(b) == TRUE

\* The multi-row INSERT carries one identifier twice: the unique index
\* rejects the statement.
RepeatedInBatch(b) ==
    \E i, j \in 1..Len(b) : i < j /\ b[i].event_id = b[j].event_id

\* ------------------------------------------------------------- table users
UserRowIds == {r.id : r \in users \cup UNION {tx[q].users : q \in Procs}}

UserLockedByOther_NoWait(p, u) == FALSE

\* The upsert of user u by session p has to wait: another session has
\* inserted or updated the row of u and not yet committed or rolled back.
UserLockedByOther(p, u) == \E q \in Procs \ {p} : u \in tx[q].locks

RECURSIVE UserRows(_, _, _)
\* INSERT .. ON CONFLICT (user_id) DO UPDATE for the user ids in `todo`:
\* a new row for an id without one, the existing row kept otherwise.
UserRows(todo, existing, used) ==
    IF todo = {} THEN {}
    ELSE LET u == Min(todo)
         IN  IF \E r \in existing : r.user_id = u
             THEN UserRows(todo \ {u}, existing, used)
             ELSE LET n == FreshId(used)
                  IN  {[id |-> n, user_id |-> u]}
                      \cup UserRows(todo \ {u}, existing, used \cup {n})

\* -------------------------------------------------------- table retention
RetentionRowIds ==
    {r.id : r \in retention \cup UNION {tx[q].retention : q \in Procs}}

first_event_map_committed(p, us) ==
    [u \in {v \in us : \E r \in events : r.user_id = v} |->
        Min({r.occurred_date : r \in {x \in events : x.user_id = u}})]

\* first_events_query: occurred_at::date of the earliest row per user over
\* the rows the session sees (committed rows and its own uncommitted ones).
first_event_map(p, us) ==
    LET seen == events \cup tx[p].events
    IN  [u \in {v \in us : \E r \in seen : r.user_id = v} |->
            Min({r.occurred_date : r \in {x \in seen : x.user_id = u}})]

\* retention_data: one candidate per event of the batch.
retention_data(p) ==
    LET b   == batch[p]
        fem == first_event_map(p, {b[i].user_id : i \in 1..Len(b)})
    IN  [i \in 1..Len(b) |->
            LET cohort == IF b[i].user_id \in DOMAIN fem
                          THEN fem[b[i].user_id] ELSE b[i].event_date
            IN  [user_id       |-> b[i].user_id,
                 cohort_date   |-> cohort,
                 activity_date |-> b[i].event_date,
                 retention_day |-> b[i].event_date - cohort]]

SameTriple_NoIndex(r, c) == FALSE

\* models.py: ix_user_cohort_activity is UNIQUE; the conflict target of the
\* retention insert.
SameTriple(r, c) ==
    /\ r.user_id = c.user_id
    /\ r.cohort_date = c.cohort_date
    /\ r.activity_date = c.activity_date

RECURSIVE RetentionRows(_, _, _)
\* INSERT .. ON CONFLICT (user_id, cohort_date, activity_date) DO NOTHING.
RetentionRows(vals, existing, used) ==
    IF vals = << >> THEN {}
    ELSE LET c == Head(vals)
         IN  IF \E r \in existing : SameTriple(r, c)
             THEN RetentionRows(Tail(vals), existing, used)
             ELSE LET n   == FreshId(used)
                      row == [id |-> n, user_id |-> c.user_id,
                              cohort_date |-> c.cohort_date,
                              activity_date |-> c.activity_date,
                              retention_day |-> c.retention_day]
                  IN  {row} \cup RetentionRows(Tail(vals), existing \cup {row},
                                               used \cup {n})

\* ------------------------------------------------------------------- cache
\* cache_key_generator: "cache:" + md5 of "<func_name>:<args>:<kwargs>", the
\* args being (db, user_id).  A key is the list of its ':'-separated segments;
\* the digest stands for itself (one digest per hashed string).
cache_key_generator(func_name, db, user_id) ==
    <<"cache", <<func_name, db, user_id>>>>

UserPatterns_StatsOnly(u) == {<<"user_stats", u>>}

\* Glob patterns "a:b:*" are the list of their literal segments.
UserPatterns(u) == {<<"user_stats", u>>, <<"user_retention", u>>}

DecoratorPatterns ==
    {<<"ingestion_metrics">>, <<"user_stats">>, <<"top_events">>, <<"dau">>,
     <<"retention">>, <<"cohorts", "list">>}

RECURSIVE Matches(_, _)
\* Redis KEYS: the key starts with the literal part of the pattern.
Matches(key, pat) ==
    IF pat = << >> THEN Len(key) >= 1
    ELSE IF key = << >> THEN FALSE
    ELSE IF Head(key) = Head(pat) THEN Matches(Tail(key), Tail(pat))
    ELSE FALSE

\* RedisClient.delete_pattern: nothing is done when disconnected or when the
\* server fails.
delete_pattern(c, pats) ==
    IF redis_connected /\ ~redis_failing
    THEN {e \in c : \A pat \in pats : ~Matches(e.key, pat)}
    ELSE c

delete_pattern_uncaught(failing) == failing

\* RedisClient.delete_pattern, `except Exception`: the error of a failing
\* server is logged and False is returned, so no error leaves the method.
delete_pattern_raises(failing) == FALSE

Times(n, x) == [i \in 1..n |-> x]

\* The delete_pattern calls of _invalidate_user_caches: two per user, none
\* when is_connected is False.
UserCacheOps(us) ==
    IF redis_connected THEN Times(2 * Cardinality(us), "delete_pattern")
    ELSE << >>

\* The patterns _invalidate_user_caches hands to delete_pattern.
UserCachePatterns(us) ==
    IF redis_connected THEN UNION {UserPatterns(u) : u \in us} ELSE {}

\* The queries of get_user_stats, run against the committed rows.
user_stats(u) ==
    [total_events |-> Cardinality({r \in events : r.user_id = u}),
     active_days  |-> Cardinality({r \in retention : r.user_id = u})]

\* RedisClient.get: the stored value, or None (here the empty set) when
\* disconnected or absent.
redis_get(key) ==
    IF redis_connected /\ ~redis_failing
    THEN {e.value : e \in {x \in cache : x.key = key}}
    ELSE {}

\* Key manager, rate limiter and workers after start-up: no key, a full
\* bucket, idle workers with a fresh Session each.
InitSide ==
    /\ api_keys = {}
    /\ now = 0
    /\ admin_seen = [p \in Procs |-> -1]
    /\ revoked = {}
    /\ auth_last = [key |-> 0, perm |-> "none", status |-> 0]
    /\ auth_calls = 0
    /\ tokens = Capacity
    /\ last_refill = 0
    /\ consumed = [n |-> 0, result |-> TRUE, count |-> 0, caller |-> "none"]
    /\ msgs = 0
    /\ wpc = [w \in Workers |-> "idle"]
    /\ wmsg = [w \in Workers |-> [n |-> 0, event_id |-> 0]]
    /\ wsession = [w \in Workers |-> "active"]
    /\ handled = {}

\* ------------------------------------------------------------------- Init
Init ==
    /\ events = {}
    /\ users = {}
    /\ retention = {}
    /\ tx = [p \in Procs |-> EmptyTx]
    /\ pc = [p \in Procs |-> "idle"]
    /\ batch = [p \in Procs |-> << >>]
    /\ idx = [p \in Procs |-> 0]
    /\ successful = [p \in Procs |-> 0]
    /\ user_ids = [p \in Procs |-> {}]
    /\ ret = [p \in Procs |-> 0]
    /\ before = [p \in Procs |-> NoRows]
    /\ path = [p \in Procs |-> "none"]
    /\ cause = [p \in Procs |-> "none"]
    /\ seq = [p \in Procs |-> 0]
    /\ overlapped = [p \in Procs |-> {}]
    /\ calls = 0
    /\ faults = 0
    /\ cache = {}
    /\ redis_connected = TRUE
    /\ last = [outcome |-> "none"]
    /\ ops = [p \in Procs |-> << >>]
    /\ deleted = [p \in Procs |-> {}]
    /\ redis_failing = FALSE
    /\ nats = "connected"
    /\ published = {}
    /\ user_retention_exists = TRUE
    /\ InitSide

\* ------------------------------------------------------- ingest_events
\* db.rollback(): every uncommitted row of the session is dropped and its
\* row locks are released.
rollback(p) == tx' = [tx EXCEPT ![p] = EmptyTx]

\* except IntegrityError: rollback, then the per-event fallback.  `why` is
\* "duplicate" for a violation of the event_id index, "integrity" otherwise.
ExceptIntegrityError(p, why) ==
    /\ rollback(p)
    /\ cause' = [cause EXCEPT ![p] = why]
    /\ pc' = [pc EXCEPT ![p] = "fb_upsert"]
    /\ idx' = [idx EXCEPT ![p] = 1]
    /\ successful' = [successful EXCEPT ![p] = 0]
    /\ user_ids' = [user_ids EXCEPT ![p] = {}]
    /\ path' = [path EXCEPT ![p] = "fallback"]
    /\ ops' = [ops EXCEPT ![p] = Append(@, "rollback")]
    /\ UNCHANGED ret

\* except Exception: rollback, return 0.
ExceptException(p) ==
    /\ rollback(p)
    /\ cause' = [cause EXCEPT ![p] = "other"]
    /\ pc' = [pc EXCEPT ![p] = "decorators"]
    /\ ret' = [ret EXCEPT ![p] = 0]
    /\ path' = [path EXCEPT ![p] = "aborted"]
    /\ ops' = [ops EXCEPT ![p] = Append(@, "rollback")]
    /\ UNCHANGED <<idx, successful, user_ids>>

\* A store round trip that fails for a reason of the environment.
Fault(p, err) ==
    /\ err # "none"
    /\ faults < MaxFaults
    /\ faults' = faults + 1
    /\ IF err = "integrity" THEN ExceptIntegrityError(p, "integrity")
       ELSE ExceptException(p)

\* Entry of ingest_events: the empty-batch return, else events_data and
\* user_ids are built.  A request is served by the first free session.
ingest_events(p, b) ==
    /\ pc[p] = "idle"
    /\ \A q \in Procs : q < p => pc[q] # "idle"
    /\ calls < MaxCalls
    /\ calls' = calls + 1
    /\ batch' = [batch EXCEPT ![p] = b]
    /\ seq' = [seq EXCEPT ![p] = calls + 1]
    /\ before' = [before EXCEPT ![p] = [events |-> events, users |-> users,
                                        retention |-> retention]]
    /\ overlapped' = [q \in Procs |->
                        IF q = p THEN {r \in Procs \ {p} : InFlight(r)}
                        ELSE IF InFlight(q) THEN overlapped[q] \cup {p}
                        ELSE overlapped[q]]
    /\ IF b = << >>
       THEN /\ pc' = [pc EXCEPT ![p] = "decorators"]
            /\ ret' = [ret EXCEPT ![p] = 0]
            /\ path' = [path EXCEPT ![p] = "empty"]
            /\ UNCHANGED user_ids
       ELSE /\ pc' = [pc EXCEPT ![p] = "ensure_users"]
            /\ user_ids' = [user_ids EXCEPT ![p] =
                               {b[i].user_id : i \in 1..Len(b)}]
            /\ path' = [path EXCEPT ![p] = "batch"]
            /\ UNCHANGED ret
    /\ ops' = [ops EXCEPT ![p] = << >>]
    /\ deleted' = [deleted EXCEPT ![p] = {}]
    /\ UNCHANGED <<storeVars, cacheVars, tx, idx, successful, cause, faults,
                   published, envVars, authVars, workerVars>>

\* _ensure_users_batch: one upsert statement for the users of the batch.
_ensure_users_batch(p, err) ==
    /\ pc[p] = "ensure_users"
    /\ IF err = "none"
       THEN /\ \A u \in user_ids[p] : ~UserLockedByOther(p, u)
            /\ tx' = [tx EXCEPT ![p].users =
                         @ \cup UserRows(user_ids[p], users \cup @, UserRowIds),
                                 ![p].locks = @ \cup user_ids[p]]
            /\ pc' = [pc EXCEPT ![p] = "insert_events"]
            /\ ops' = [ops EXCEPT ![p] = Append(@, "upsert_users")]
            /\ UNCHANGED <<idx, successful, user_ids, ret, path, cause,
                           faults>>
       ELSE Fault(p, err)
    /\ UNCHANGED <<storeVars, cacheVars, batch, before, seq, overlapped,
                   calls, published, deleted, envVars, sideVars>>

\* db.execute(insert(Event).values(events_data)): one statement for the batch.
InsertEvents(p, err) ==
    /\ pc[p] = "insert_events"
    /\ IF err = "none"
       THEN LET b == batch[p]
                dup == \/ RepeatedInBatch(b)
                       \/ \E i \in 1..Len(b) :
                              UniqueEventId(events, b[i].event_id)
            IN  IF dup
                THEN ExceptIntegrityError(p, "duplicate") /\ UNCHANGED faults
                ELSE /\ \A i \in 1..Len(b) :
                            ~UniqueEventId(PendingEvents(p), b[i].event_id)
                     /\ tx' = [tx EXCEPT ![p].events =
                                  @ \cup EventRows(b, EventRowIds)]
                     /\ pc' = [pc EXCEPT ![p] = "update_retention"]
                     /\ ops' = [ops EXCEPT ![p] = Append(@, "insert_events")]
                     /\ UNCHANGED <<idx, successful, user_ids, ret, path,
                                    cause, faults>>
       ELSE Fault(p, err)
    /\ UNCHANGED <<storeVars, cacheVars, batch, before, seq, overlapped,
                   calls, published, deleted, envVars, sideVars>>

\* _update_retention_batch: earliest dates read, candidates inserted.  The
\* insert into a table that does not exist raises ProgrammingError, which
\* ingest_events handles in `except Exception`.
_update_retention_batch(p, err) ==
    /\ pc[p] = "update_retention"
    /\ IF err = "none"
       THEN IF user_retention_exists
            THEN /\ tx' = [tx EXCEPT ![p].retention =
                              @ \cup RetentionRows(retention_data(p),
                                                   retention \cup @,
                                                   RetentionRowIds)]
                 /\ pc' = [pc EXCEPT ![p] = "commit"]
                 /\ ops' = [ops EXCEPT ![p] =
                               @ \o <<"select_first_events",
                                      "insert_retention">>]
                 /\ UNCHANGED <<idx, successful, user_ids, ret, path, cause,
                                faults>>
            ELSE ExceptException(p) /\ UNCHANGED faults
       ELSE Fault(p, err)
    /\ UNCHANGED <<storeVars, cacheVars, batch, before, seq, overlapped,
                   calls, published, deleted, envVars, sideVars>>

\* _invalidate_user_caches(user_ids): both per-user patterns of every user.
_invalidate_user_caches(c, us) ==
    delete_pattern(c, UNION {UserPatterns(u) : u \in us})

\* db.commit() of the batch path, then _invalidate_user_caches(user_ids) and
\* return len(events_data).
CommitBatch(p, err) ==
    /\ pc[p] = "commit"
    /\ err # "integrity"
    /\ IF err = "none"
       THEN /\ events' = events \cup tx[p].events
            /\ users' = users \cup tx[p].users
            /\ retention' = retention \cup tx[p].retention
            /\ tx' = [tx EXCEPT ![p] = EmptyTx]
            /\ cache' = _invalidate_user_caches(cache, user_ids[p])
            /\ pc' = [pc EXCEPT ![p] = "decorators"]
            /\ ret' = [ret EXCEPT ![p] = Len(batch[p])]
            /\ ops' = [ops EXCEPT ![p] =
                          Append(@, "commit") \o UserCacheOps(user_ids[p])]
            /\ deleted' = [deleted EXCEPT ![p] =
                              @ \cup UserCachePatterns(user_ids[p])]
            /\ UNCHANGED <<idx, successful, user_ids, path, cause, faults>>
       ELSE Fault(p, err) /\ UNCHANGED <<storeVars, cache, deleted>>
    /\ UNCHANGED <<redis_connected, last, batch, before, seq, overlapped,
                   calls, published, envVars, sideVars>>

\* ------------------------------------ _insert_events_individual_simple
\* Loop bookkeeping after one event of the fallback was handled.
NextEvent(p) ==
    /\ idx' = [idx EXCEPT ![p] = @ + 1]
    /\ pc' = [pc EXCEPT ![p] =
                 IF idx[p] + 1 > Len(batch[p]) THEN "fb_finish"
                 ELSE "fb_upsert"]

\* One loop iteration up to db.execute(user_stmt): the user id is recorded
\* and the user upserted.  Either except clause rolls the session back and
\* continues with the next event.
FallbackUpsert(p, err) ==
    /\ pc[p] = "fb_upsert"
    /\ LET u == batch[p][idx[p]].user_id
       IN  /\ user_ids' = [user_ids EXCEPT ![p] = @ \cup {u}]
           /\ IF err = "none"
              THEN /\ ~UserLockedByOther(p, u)
                   /\ tx' = [tx EXCEPT ![p].users =
                                @ \cup UserRows({u}, users \cup @, UserRowIds),
                                        ![p].locks = @ \cup {u}]
                   /\ pc' = [pc EXCEPT ![p] = "fb_flush"]
                   /\ ops' = [ops EXCEPT ![p] = Append(@, "upsert_user")]
                   /\ UNCHANGED <<idx, faults>>
              ELSE /\ faults < MaxFaults
                   /\ faults' = faults + 1
                   /\ rollback(p)
                   /\ ops' = [ops EXCEPT ![p] = Append(@, "rollback")]
                   /\ NextEvent(p)
    /\ UNCHANGED <<storeVars, cacheVars, batch, successful, ret, before, path,
                   cause, seq, overlapped, calls, published, deleted, envVars, sideVars>>

\* db.add(db_event); db.flush(); successful += 1.  A failed flush is caught:
\* db.rollback() and continue.
FallbackFlush(p, err) ==
    /\ pc[p] = "fb_flush"
    /\ LET e == batch[p][idx[p]]
       IN  IF err = "none"
           THEN IF UniqueEventId(events \cup tx[p].events, e.event_id)
                THEN /\ rollback(p)
                     /\ ops' = [ops EXCEPT ![p] = Append(@, "rollback")]
                     /\ UNCHANGED successful
                ELSE /\ ~UniqueEventId(PendingEvents(p), e.event_id)
                     /\ tx' = [tx EXCEPT ![p].events =
                                  @ \cup EventRows(<<e>>, EventRowIds)]
                     /\ ops' = [ops EXCEPT ![p] = Append(@, "flush")]
                     /\ successful' = [successful EXCEPT ![p] = @ + 1]
           ELSE /\ faults < MaxFaults
                /\ rollback(p)
                /\ ops' = [ops EXCEPT ![p] = Append(@, "rollback")]
                /\ UNCHANGED successful
    /\ faults' = IF err = "none" THEN faults ELSE faults + 1
    /\ NextEvent(p)
    /\ UNCHANGED <<storeVars, cacheVars, batch, user_ids, ret, before, path,
                   cause, seq, overlapped, calls, published, deleted, envVars, sideVars>>

\* After the loop: one commit and the user-cache invalidation when
\* successful > 0, then return successful.  A failing commit is not caught.
FallbackFinish(p, err) ==
    /\ pc[p] = "fb_finish"
    /\ err # "integrity"
    /\ IF err = "none"
       THEN /\ IF successful[p] > 0
               THEN /\ events' = events \cup tx[p].events
                    /\ users' = users \cup tx[p].users
                    /\ retention' = retention \cup tx[p].retention
                    /\ cache' = _invalidate_user_caches(cache, user_ids[p])
                    /\ ops' = [ops EXCEPT ![p] =
                                  Append(@, "commit")
                                  \o UserCacheOps(user_ids[p])]
                    /\ deleted' = [deleted EXCEPT ![p] =
                                      @ \cup UserCachePatterns(user_ids[p])]
               ELSE UNCHANGED <<storeVars, cache, ops, deleted>>
            /\ tx' = [tx EXCEPT ![p] = EmptyTx]
            /\ ret' = [ret EXCEPT ![p] = successful[p]]
            /\ pc' = [pc EXCEPT ![p] = "decorators"]
            /\ UNCHANGED faults
       ELSE /\ successful[p] > 0
            /\ faults < MaxFaults
            /\ faults' = faults + 1
            /\ rollback(p)
            /\ ret' = [ret EXCEPT ![p] = -1]
            /\ pc' = [pc EXCEPT ![p] = "done"]
            /\ UNCHANGED <<storeVars, cache, ops, deleted>>
    /\ UNCHANGED <<redis_connected, last, batch, idx, successful, user_ids,
                   before, path, cause, seq, overlapped, calls, published,
                   envVars, sideVars>>

\* The six invalidate_cache wrappers around ingest_events: each deletes its
\* pattern after the wrapped call returned, whatever it returned, when
\* is_connected is True.  The wrapper has no try: an error leaving
\* delete_pattern would leave the innermost wrapper and reach the caller.
invalidate_cache(p) ==
    /\ pc[p] = "decorators"
    /\ cache' = delete_pattern(cache, DecoratorPatterns)
    /\ pc' = [pc EXCEPT ![p] = "done"]
    /\ IF ~redis_connected
       THEN UNCHANGED <<ops, deleted, ret>>
       ELSE IF delete_pattern_raises(redis_failing)
       THEN /\ ops' = [ops EXCEPT ![p] = Append(@, "delete_pattern")]
            /\ deleted' = [deleted EXCEPT ![p] =
                              @ \cup {<<"ingestion_metrics">>}]
            /\ ret' = [ret EXCEPT ![p] = -1]
       ELSE /\ ops' = [ops EXCEPT ![p] =
                          @ \o Times(Cardinality(DecoratorPatterns),
                                     "delete_pattern")]
            /\ deleted' = [deleted EXCEPT ![p] = @ \cup DecoratorPatterns]
            /\ UNCHANGED ret
    /\ UNCHANGED <<storeVars, redis_connected, last, tx, batch, idx,
                   successful, user_ids, before, path, cause, seq,
                   overlapped, calls, faults, published, envVars, sideVars>>

\* publish_events_to_nats(events): every event of the request is published
\* when the bus is connected; a disconnected bus returns 0 at once and a
\* failing publish_event returns False.  Nothing is raised.
publish_events_to_nats(b) ==
    IF nats = "connected" THEN {b[i].event_id : i \in 1..Len(b)} ELSE {}

\* The caller (post_events) has the result: with a count above 0 it starts
\* the publishing task; the session is closed.
Return(p) ==
    /\ pc[p] = "done"
    /\ published' = IF ret[p] > 0
                    THEN published \cup publish_events_to_nats(batch[p])
                    ELSE published
    /\ ops' = [ops EXCEPT ![p] = << >>]
    /\ deleted' = [deleted EXCEPT ![p] = {}]
    /\ pc' = [pc EXCEPT ![p] = "idle"]
    /\ batch' = [batch EXCEPT ![p] = << >>]
    /\ idx' = [idx EXCEPT ![p] = 0]
    /\ successful' = [successful EXCEPT ![p] = 0]
    /\ user_ids' = [user_ids EXCEPT ![p] = {}]
    /\ ret' = [ret EXCEPT ![p] = 0]
    /\ before' = [before EXCEPT ![p] = NoRows]
    /\ path' = [path EXCEPT ![p] = "none"]
    /\ cause' = [cause EXCEPT ![p] = "none"]
    /\ seq' = [seq EXCEPT ![p] = 0]
    /\ overlapped' = [overlapped EXCEPT ![p] = {}]
    /\ UNCHANGED <<storeVars, cacheVars, tx, calls, faults, envVars, sideVars>>

\* ------------------------------------------------------ get_user_stats
\* get_user_stats(db, user_id) behind @cached(ttl=300, key_prefix=
\* "user_stats").  The function is synchronous, so the decorator hands out
\* sync_wrapper: asyncio.run(async_wrapper(..)) raises RuntimeError inside a
\* running event loop; otherwise a cached value is returned on a hit, and on
\* a miss the function body runs and `await` of its dict raises TypeError
\* before redis_client.set is reached.
get_user_stats(db, u, in_loop) ==
    /\ \A q \in Procs : ~InFlight(q)
    /\ LET hit == redis_get(cache_key_generator("user_stats", db, u))
       IN  last' = IF in_loop
                   THEN [outcome |-> "RuntimeError", user_id |-> u,
                         value |-> user_stats(u), fresh |-> user_stats(u)]
                   ELSE IF hit # {}
                   THEN [outcome |-> "hit", user_id |-> u,
                         value |-> CHOOSE v \in hit : TRUE,
                         fresh |-> user_stats(u)]
                   ELSE [outcome |-> "TypeError", user_id |-> u,
                         value |-> user_stats(u), fresh |-> user_stats(u)]
    /\ UNCHANGED <<storeVars, cache, redis_connected, tx, pc, batch, idx,
                   successful, user_ids, ret, before, path, cause, seq,
                   overlapped, calls, faults, ops, published, deleted, envVars, sideVars>>

\* ------------------------------------------------------------ analytics
\* The query functions of analytics.py over the committed rows.  Each gives
\* [kind, data, rows]: kind is "result" for a structured result, "error" for
\* the value {"error": ..} and "raise" for an exception; data is the set of
\* result lines; rows is the number of store rows the query matched.  None
\* of them calls the cache.
Days == 1..(NumDates + 1)

\* get_dau_stats(db, d, d): distinct users per event_date.
get_dau_stats(d) ==
    LET rows == {e \in events : e.event_date = d}
    IN  [kind |-> "result",
         data |-> IF rows = {} THEN {}
                  ELSE {<<d, Cardinality({e.user_id : e \in rows})>>},
         rows |-> Cardinality(rows)]

\* get_top_events(db, d, d): events per type (the model has one type).
get_top_events(d) ==
    LET rows == {e \in events : e.event_date = d}
    IN  [kind |-> "result",
         data |-> IF rows = {} THEN {} ELSE {<<"event", Cardinality(rows)>>},
         rows |-> Cardinality(rows)]

\* get_retention_stats(db, d): the zeroed result when the table is missing
\* or the cohort has no user, else retained users per retention day.
get_retention_stats(d) ==
    LET rows   == IF user_retention_exists
                  THEN {r \in retention : r.cohort_date = d} ELSE {}
        cohort == {r.user_id : r \in {x \in rows : x.retention_day = 0}}
    IN  [kind |-> "result",
         data |-> IF cohort = {} THEN {}
                  ELSE {<<day, Cardinality({r.user_id :
                                   r \in {x \in rows : x.retention_day = day}})>> :
                        day \in {r.retention_day :
                                   r \in {x \in rows : x.retention_day >= 0}}},
         rows |-> Cardinality(rows)]

\* total_users_query: distinct users of the cohort with a day-0 row.
total_users(d) ==
    Cardinality({r.user_id : r \in {x \in retention :
                                       /\ x.cohort_date = d
                                       /\ x.retention_day = 0}})

\* retention_query: distinct users of the cohort per retention day within
\* 0..windows; a day without a row counts 0.
retained_users(d, windows, day) ==
    Cardinality({r.user_id : r \in {x \in retention :
                                       /\ x.cohort_date = d
                                       /\ x.retention_day <= windows
                                       /\ x.retention_day >= 0
                                       /\ x.retention_day = day}})

\* retention_rate = round(retained / total_users * 100, 2), kept here in
\* hundredths of a percent.
retention_rate(retained, total) ==
    IF total > 0 THEN (retained * 10000 + total \div 2) \div total ELSE 0

\* The result of get_retention_stats(db, d, windows) on an existing table:
\* no window when total_users is 0, else one entry per day in
\* range(windows + 1).
retention_curve(d, windows) ==
    IF total_users(d) = 0
    THEN [total_users |-> 0, data |-> << >>]
    ELSE [total_users |-> total_users(d),
          data |-> [i \in 1..(windows + 1) |->
                      [window             |-> i - 1,
                       retained_users     |-> retained_users(d, windows, i - 1),
                       total_cohort_users |-> total_users(d),
                       retention_rate     |->
                           retention_rate(retained_users(d, windows, i - 1),
                                          total_users(d))]]]

\* get_user_retention_data(db, u): `if not rows` returns {"error": ..}; the
\* query against a missing table raises, caught as {"error": str(e)}.
get_user_retention_data(u) ==
    LET rows == IF user_retention_exists
                THEN {r \in retention : r.user_id = u} ELSE {}
    IN  IF rows = {}
        THEN [kind |-> "error", data |-> {}, rows |-> 0]
        ELSE [kind |-> "result",
              data |-> {<<r.retention_day, r.activity_date>> : r \in rows},
              rows |-> Cardinality(rows)]

\* get_cohorts_list(db): [] when the table is missing, else users per cohort.
get_cohorts_list(a) ==
    LET rows == IF user_retention_exists
                THEN {r \in retention : r.retention_day = 0} ELSE {}
    IN  [kind |-> "result",
         data |-> {<<c, Cardinality({r.user_id :
                          r \in {x \in rows : x.cohort_date = c}})>> :
                   c \in {r.cohort_date : r \in rows}},
         rows |-> Cardinality(rows)]

AnalyticsFuncs ==
    {"dau", "top_events", "retention", "user_retention", "cohorts"}

AnalyticsArgs(f) ==
    IF f = "user_retention" THEN UserIds
    ELSE IF f = "cohorts" THEN {0}
    ELSE Days

Analytics(f, a) ==
    IF f = "dau" THEN get_dau_stats(a)
    ELSE IF f = "top_events" THEN get_top_events(a)
    ELSE IF f = "retention" THEN get_retention_stats(a)
    ELSE IF f = "user_retention" THEN get_user_retention_data(a)
    ELSE get_cohorts_list(a)

\* The endpoints /stats/dau, /stats/top-events, /stats/retention,
\* /users/{id}/retention and /cohorts/active: the function is awaited with
\* the request's session; looked_up and stored tell whether the cache was
\* read before and written after the store query.
AnalyticsEndpoint(f, a) ==
    /\ \A q \in Procs : pc[q] = "idle"
    /\ LET r == Analytics(f, a)
       IN  last' = [outcome |-> r.kind, func |-> f, args |-> a,
                    value |-> r.data, rows |-> r.rows,
                    looked_up |-> FALSE, stored |-> FALSE]
    /\ UNCHANGED <<storeVars, cache, redis_connected, tx, pc, batch, idx,
                   successful, user_ids, ret, before, path, cause, seq,
                   overlapped, calls, faults, ops, published, deleted, envVars, sideVars>>

\* get_ingestion_metrics(db) behind @cached(ttl=600, key_prefix=
\* "ingestion_metrics"): a synchronous function, so sync_wrapper as for
\* get_user_stats.  The endpoint /system/metrics calls it inside the running
\* event loop, where asyncio.run raises before the cache is read.
get_ingestion_metrics(db, in_loop) ==
    /\ \A q \in Procs : pc[q] = "idle"
    /\ LET hit == redis_get(cache_key_generator("ingestion_metrics", db, 0))
       IN  last' = [outcome   |-> IF in_loop THEN "RuntimeError"
                                  ELSE IF hit # {} THEN "hit"
                                  ELSE "TypeError",
                    func      |-> "ingestion_metrics", args |-> db,
                    value     |-> IF ~in_loop /\ hit # {}
                                  THEN CHOOSE v \in hit : TRUE
                                  ELSE Cardinality(events),
                    rows      |-> Cardinality(events),
                    looked_up |-> ~in_loop,
                    stored    |-> FALSE]
    /\ UNCHANGED <<storeVars, cache, redis_connected, tx, pc, batch, idx,
                   successful, user_ids, ret, before, path, cause, seq,
                   overlapped, calls, faults, ops, published, deleted, envVars, sideVars>>

\* SETEX: an entry disappears when its time-to-live has run out.
Expire(e) ==
    /\ e \in cache
    /\ cache' = cache \ {e}
    /\ UNCHANGED <<storeVars, redis_connected, last, tx, pc, batch, idx,
                   successful, user_ids, ret, before, path, cause, seq,
                   overlapped, calls, faults, ops, published, deleted, envVars, sideVars>>

\* ------------------------------------------------------- specifications
Step(p) ==
    \/ \E err \in Errors : _ensure_users_batch(p, err)
    \/ \E err \in Errors : InsertEvents(p, err)
    \/ \E err \in Errors : _update_retention_batch(p, err)
    \/ \E err \in Errors : CommitBatch(p, err)
    \/ \E err \in Errors : FallbackUpsert(p, err)
    \/ \E err \in Errors : FallbackFlush(p, err)
    \/ \E err \in Errors : FallbackFinish(p, err)
    \/ invalidate_cache(p)
    \/ Return(p)

\* Request handlers running side by side, each in its own session.
Next ==
    \/ \E p \in Procs, b \in Batches :
          ingest_events(p, b) /\ UNCHANGED limiterVars
    \/ \E p \in Procs : Step(p)

Spec == Init /\ [][Next]_vars

\* One client: a call starts only when no other call is in flight (an earlier
\* call may still show its result).
NextSeq ==
    \/ \E p \in Procs, b \in Batches :
          /\ \A q \in Procs : ~InFlight(q)
          /\ ingest_events(p, b)
          /\ UNCHANGED limiterVars
    \/ \E p \in Procs : Step(p)

SpecSeq == Init /\ [][NextSeq]_vars

\* One client that ingests and asks for per-user statistics.  Redis outlives
\* the application: it may be unreachable, and it may already hold a
\* user_stats result under a key of the wrapper, computed against the
\* (empty) store.
InitCache ==
    /\ events = {}
    /\ users = {}
    /\ retention = {}
    /\ tx = [p \in Procs |-> EmptyTx]
    /\ pc = [p \in Procs |-> "idle"]
    /\ batch = [p \in Procs |-> << >>]
    /\ idx = [p \in Procs |-> 0]
    /\ successful = [p \in Procs |-> 0]
    /\ user_ids = [p \in Procs |-> {}]
    /\ ret = [p \in Procs |-> 0]
    /\ before = [p \in Procs |-> NoRows]
    /\ path = [p \in Procs |-> "none"]
    /\ cause = [p \in Procs |-> "none"]
    /\ seq = [p \in Procs |-> 0]
    /\ overlapped = [p \in Procs |-> {}]
    /\ calls = 0
    /\ faults = 0
    /\ redis_connected \in BOOLEAN
    /\ \E held \in SUBSET (Sessions \X UserIds) :
          /\ Cardinality(held) <= 1
          /\ cache = {[key   |-> cache_key_generator("user_stats", h[1], h[2]),
                       value |-> user_stats(h[2])] : h \in held}
    /\ last = [outcome |-> "none"]
    /\ ops = [p \in Procs |-> << >>]
    /\ deleted = [p \in Procs |-> {}]
    /\ redis_failing = FALSE
    /\ nats = "connected"
    /\ published = {}
    /\ user_retention_exists = TRUE
    /\ InitSide

NextCache ==
    \/ \E b \in Batches :
          /\ \A q \in Procs : pc[q] = "idle"
          /\ ingest_events(1, b)
          /\ UNCHANGED limiterVars
    \/ \E p \in Procs : Step(p)
    \/ \E db \in Sessions, u \in UserIds, in_loop \in BOOLEAN :
          get_user_stats(db, u, in_loop)
    \/ \E e \in cache : Expire(e)

SpecCache == InitCache /\ [][NextCache]_vars

\* One client, one call at a time, against every state of the two optional
\* services: Redis connected, unreachable at start-up (is_connected False) or
\* connected and failing on every command; the bus likewise.
InitDeps ==
    /\ events = {}
    /\ users = {}
    /\ retention = {}
    /\ tx = [p \in Procs |-> EmptyTx]
    /\ pc = [p \in Procs |-> "idle"]
    /\ batch = [p \in Procs |-> << >>]
    /\ idx = [p \in Procs |-> 0]
    /\ successful = [p \in Procs |-> 0]
    /\ user_ids = [p \in Procs |-> {}]
    /\ ret = [p \in Procs |-> 0]
    /\ before = [p \in Procs |-> NoRows]
    /\ path = [p \in Procs |-> "none"]
    /\ cause = [p \in Procs |-> "none"]
    /\ seq = [p \in Procs |-> 0]
    /\ overlapped = [p \in Procs |-> {}]
    /\ calls = 0
    /\ faults = 0
    /\ cache = {}
    /\ redis_connected \in BOOLEAN
    /\ redis_failing \in {f \in BOOLEAN : f => redis_connected}
    /\ last = [outcome |-> "none"]
    /\ ops = [p \in Procs |-> << >>]
    /\ deleted = [p \in Procs |-> {}]
    /\ nats \in {"connected", "disconnected", "failing"}
    /\ published = {}
    /\ user_retention_exists = TRUE
    /\ InitSide

NextDeps ==
    \/ \E b \in Batches :
          /\ \A q \in Procs : pc[q] = "idle"
          /\ ingest_events(1, b)
          /\ UNCHANGED limiterVars
    \/ \E p \in Procs : Step(p)

SpecDeps == InitDeps /\ [][NextDeps]_vars

\* One client that ingests and queries the analytics endpoints.  The
\* migrations may have failed at start-up (the application goes on outside
\* production), so table user_retention may be missing.
InitQuery ==
    /\ events = {}
    /\ users = {}
    /\ retention = {}
    /\ tx = [p \in Procs |-> EmptyTx]
    /\ pc = [p \in Procs |-> "idle"]
    /\ batch = [p \in Procs |-> << >>]
    /\ idx = [p \in Procs |-> 0]
    /\ successful = [p \in Procs |-> 0]
    /\ user_ids = [p \in Procs |-> {}]
    /\ ret = [p \in Procs |-> 0]
    /\ before = [p \in Procs |-> NoRows]
    /\ path = [p \in Procs |-> "none"]
    /\ cause = [p \in Procs |-> "none"]
    /\ seq = [p \in Procs |-> 0]
    /\ overlapped = [p \in Procs |-> {}]
    /\ calls = 0
    /\ faults = 0
    /\ cache = {}
    /\ redis_connected = TRUE
    /\ redis_failing = FALSE
    /\ last = [outcome |-> "none"]
    /\ ops = [p \in Procs |-> << >>]
    /\ deleted = [p \in Procs |-> {}]
    /\ nats = "connected"
    /\ published = {}
    /\ user_retention_exists \in BOOLEAN
    /\ InitSide

NextQuery ==
    \/ \E b \in Batches :
          /\ \A q \in Procs : pc[q] = "idle"
          /\ ingest_events(1, b)
          /\ UNCHANGED limiterVars
    \/ \E p \in Procs : Step(p)
    \/ \E f \in AnalyticsFuncs :
          \E a \in AnalyticsArgs(f) : AnalyticsEndpoint(f, a)
    \/ \E db \in Sessions, in_loop \in BOOLEAN :
          get_ingestion_metrics(db, in_loop)

SpecQuery == InitQuery /\ [][NextQuery]_vars

\* ---------------------------------------------------------------- auth.py
Perms == {"read", "write", "admin"}

\* Permission lists given to generated keys.
KeyPermissions == {{"read"}, {"read", "write"}, Perms}

\* expires_at and last_used of a key that has none (None).
NoExpiry == -1

\* APIKeyManager._hash_key: the SHA-256 digest of the presented key.
_hash_key(api_key) == <<"sha256", api_key>>

db_key_any(rows, api_key) == {k \in rows : k.key_hash = _hash_key(api_key)}

\* validate_key, the lookup: the rows with the hash of the key and
\* is_active = True (key_hash is UNIQUE: at most one).
db_key(rows, api_key) ==
    {k \in rows : k.key_hash = _hash_key(api_key) /\ k.is_active}

\* validate_key: expires_at is set and lies before the current time.
expired(k, t) == k.expires_at # NoExpiry /\ k.expires_at < t

\* validate_key(db, api_key): 401 for an empty key (0), for a key that is
\* unknown or inactive and for an expired key.
validate_key(rows, api_key, t) ==
    IF api_key = 0 THEN 401
    ELSE IF db_key(rows, api_key) = {} THEN 401
    ELSE IF \E k \in db_key(rows, api_key) : expired(k, t) THEN 401
    ELSE 200

\* get_current_user, then require_permission(perm): the status a guarded
\* endpoint answers with before its body runs (200: the body runs).
require_permission(rows, api_key, perm, t) ==
    IF validate_key(rows, api_key, t) # 200 THEN 401
    ELSE IF perm \in (CHOOSE k \in db_key(rows, api_key) : TRUE).permissions
    THEN 200
    ELSE 403

\* validate_key sets last_used on the key it accepted and commits, before
\* the permission is looked at.
last_used_set(rows, api_key, t) ==
    IF validate_key(rows, api_key, t) = 200
    THEN {IF k \in db_key(rows, api_key)
          THEN [k EXCEPT !.last_used = t] ELSE k : k \in rows}
    ELSE rows

\* generate_key: a new random key stored under its hash, active, expiring
\* expires_days after the current time when expires_days is given (> 0).
generate_key(rows, user_id, permissions, expires_days, t) ==
    [id          |-> FreshId({k.id : k \in rows}),
     key_hash    |-> _hash_key(FreshId({k.key_hash[2] : k \in rows})),
     user_id     |-> user_id,
     permissions |-> permissions,
     is_active   |-> TRUE,
     expires_at  |-> IF expires_days > 0 THEN t + expires_days ELSE NoExpiry,
     last_used   |-> NoExpiry]

\* revoke_key: is_active = False on the row with this id.
revoke_key(rows, key_id) ==
    {IF k.id = key_id THEN [k EXCEPT !.is_active = FALSE] ELSE k : k \in rows}

\* The dependency of every guarded endpoint, logged.
Authenticate(api_key, perm) ==
    /\ auth_calls < MaxAuthCalls
    /\ auth_calls' = auth_calls + 1
    /\ auth_last' =
          [key    |-> api_key,
           perm   |-> perm,
           status |-> require_permission(api_keys, api_key, perm, now)]

\* An ingestion (write) or analytics (read) endpoint called with a key.
guarded_endpoint(api_key, perm) ==
    /\ Authenticate(api_key, perm)
    /\ api_keys' = last_used_set(api_keys, api_key, now)
    /\ UNCHANGED <<now, admin_seen, revoked, ingestVars, limiterVars,
                   workerVars>>

\* POST /auth/generate-key, guarded by require_admin_access.
generate_api_key(api_key, permissions, expires_days) ==
    /\ Authenticate(api_key, "admin")
    /\ LET rows == last_used_set(api_keys, api_key, now)
       IN  IF require_permission(api_keys, api_key, "admin", now) = 200
           THEN /\ Cardinality(api_keys) < NumKeys
                /\ api_keys' = rows \cup {generate_key(rows, "user",
                                                       permissions,
                                                       expires_days, now)}
           ELSE api_keys' = rows
    /\ UNCHANGED <<now, admin_seen, revoked, ingestVars, limiterVars,
                   workerVars>>

\* DELETE /auth/keys/{key_id}, guarded by require_admin_access: 404 when
\* revoke_key finds no row.
revoke_api_key(api_key, key_id) ==
    /\ Authenticate(api_key, "admin")
    /\ LET rows == last_used_set(api_keys, api_key, now)
       IN  IF /\ require_permission(api_keys, api_key, "admin", now) = 200
              /\ \E k \in rows : k.id = key_id
           THEN /\ api_keys' = revoke_key(rows, key_id)
                /\ revoked' = revoked \cup {key_id}
           ELSE /\ api_keys' = rows
                /\ UNCHANGED revoked
    /\ UNCHANGED <<now, admin_seen, ingestVars, limiterVars, workerVars>>

\* create_admin_key, the query: the active keys whose permissions contain
\* "admin" are counted.
existing_admin_keys(p) ==
    /\ admin_seen[p] = -1
    /\ admin_seen' = [admin_seen EXCEPT ![p] =
                         Cardinality({k \in api_keys :
                                         /\ k.is_active
                                         /\ "admin" \in k.permissions})]
    /\ UNCHANGED <<api_keys, now, revoked, auth_last, auth_calls, ingestVars,
                   limiterVars, workerVars>>

\* create_admin_key, after the count: rejected when it is above 0, else
\* generate_key for system_admin with all permissions and 365 days.
create_admin_key(p) ==
    /\ admin_seen[p] >= 0
    /\ IF admin_seen[p] > 0
       THEN UNCHANGED api_keys
       ELSE /\ Cardinality(api_keys) < NumKeys
            /\ api_keys' = api_keys \cup
                  {generate_key(api_keys, "system_admin", Perms, 365, now)}
    /\ admin_seen' = [admin_seen EXCEPT ![p] = -1]
    /\ UNCHANGED <<now, revoked, auth_last, auth_calls, ingestVars,
                   limiterVars, workerVars>>

\* A day passes.
Tick ==
    /\ now < MaxTime
    /\ now' = now + 1
    /\ UNCHANGED <<api_keys, admin_seen, revoked, auth_last, auth_calls,
                   ingestVars, limiterVars, workerVars>>

\* Requests against the key manager; the server runs in several processes
\* on one database, so two create-admin-key requests can overlap.
NextAuth ==
    \/ Tick
    \/ \E k \in 0..NumKeys, perm \in {"read", "write"} :
          guarded_endpoint(k, perm)
    \/ \E k \in 0..NumKeys, perms \in KeyPermissions, days \in {0, 1} :
          generate_api_key(k, perms, days)
    \/ \E k \in 0..NumKeys, id \in 1..NumKeys : revoke_api_key(k, id)
    \/ \E p \in Procs : existing_admin_keys(p)
    \/ \E p \in Procs : create_admin_key(p)

SpecAuth == Init /\ [][NextAuth]_vars

\* ---------------------------------------------------------- middleware.py
\* Readings time.time() can give at a call: the wall clock normally
\* advances, and it can be set back (here by one second) between two calls.
ClockReadings == {t \in 0..MaxClock : t >= last_refill - 1}

\* consume, the refill: min(capacity, tokens + time_passed * refill_rate).
refilled(t) == Min({Capacity, tokens + (t - last_refill) * RefillRate})

\* RateLimiter.consume(n) at clock reading t.
consume(n, t, caller) ==
    /\ consumed.count < MaxConsumeCalls
    /\ last_refill' = t
    /\ tokens' = IF refilled(t) >= n THEN refilled(t) - n ELSE refilled(t)
    /\ consumed' = [n      |-> n,
                    result |-> refilled(t) >= n,
                    count  |-> consumed.count + 1,
                    caller |-> caller]

\* A consume call on the limiter object by itself.
RateLimiter_consume(n, t) ==
    /\ consume(n, t, "consume")
    /\ UNCHANGED <<ingestVars, authVars, workerVars>>

\* post_events: limiter.consume(1), HTTP 429 when it returns False, else
\* ingest_events is awaited.
post_events(p, b, t) ==
    /\ \A q \in Procs : ~InFlight(q)
    /\ consume(1, t, "post_events")
    /\ IF refilled(t) >= 1
       THEN ingest_events(p, b)
       ELSE UNCHANGED <<ingestVars, authVars, workerVars>>

\* Requests with at most one event.
PostBatches == {b \in Batches : Len(b) <= 1}

\* One client posting events through the limiter.
NextLimiter ==
    \/ \E n \in 1..MaxConsume, t \in ClockReadings : RateLimiter_consume(n, t)
    \/ \E p \in Procs, b \in PostBatches, t \in ClockReadings :
          post_events(p, b, t)
    \/ \E p \in Procs : Step(p)

SpecLimiter == Init /\ [][NextLimiter]_vars

\* --------------------------------------------------------------- worker.py
\* The message handled once, with its outcome; every path of process_event
\* ends in `await msg.ack()`.
Handled(w, n, id, outcome) ==
    handled' = handled \cup {[n |-> n, event_id |-> id, worker |-> w,
                              outcome |-> outcome, acked |-> TRUE]}

\* process_event up to the duplicate check, for a message carrying event
\* identifier id (0: a payload json.loads or the field access rejects).
\* self.db is the one Session the worker was constructed with: after a
\* failed commit it is never rolled back, and every later query on it
\* raises, which `except Exception` answers with an ack.
process_event(w, id) ==
    /\ wpc[w] = "idle"
    /\ msgs < MaxMsgs
    /\ msgs' = msgs + 1
    /\ IF id = 0
       THEN Handled(w, msgs + 1, id, "invalid") /\ UNCHANGED <<wpc, wmsg>>
       ELSE IF wsession[w] = "deactive"
       THEN Handled(w, msgs + 1, id, "session_error")
            /\ UNCHANGED <<wpc, wmsg>>
       ELSE IF UniqueEventId(events, id)
       THEN Handled(w, msgs + 1, id, "duplicate") /\ UNCHANGED <<wpc, wmsg>>
       ELSE /\ wpc' = [wpc EXCEPT ![w] = "commit"]
            /\ wmsg' = [wmsg EXCEPT ![w] =
                          [n |-> msgs + 1, event_id |-> id]]
            /\ UNCHANGED handled
    /\ UNCHANGED <<wsession, ingestVars, authVars, limiterVars>>

\* self.db.add(db_event); self.db.commit(): the row is stored, or the
\* commit fails (the identifier was stored meanwhile, or a store error) and
\* the Session is left in its failed transaction.
process_event_commit(w, err) ==
    /\ wpc[w] = "commit"
    /\ LET id == wmsg[w].event_id
       IN  IF err = "none" /\ ~UniqueEventId(events, id)
           THEN /\ events' = events \cup EventRows(<<EventInput(id)>>,
                                                   EventRowIds)
                /\ Handled(w, wmsg[w].n, id, "stored")
                /\ UNCHANGED wsession
           ELSE /\ wsession' = [wsession EXCEPT ![w] = "deactive"]
                /\ Handled(w, wmsg[w].n, id, "insert_failed")
                /\ UNCHANGED events
    /\ wpc' = [wpc EXCEPT ![w] = "idle"]
    /\ wmsg' = [wmsg EXCEPT ![w] = [n |-> 0, event_id |-> 0]]
    /\ UNCHANGED <<msgs, users, retention, cacheVars, envVars, callVars,
                   authVars, limiterVars>>

\* The queue group hands every message to one of the workers.
NextWorker ==
    \/ \E w \in Workers, id \in 0..NumEventIds : process_event(w, id)
    \/ \E w \in Workers, err \in {"none", "other"} :
          process_event_commit(w, err)

SpecWorker == Init /\ [][NextWorker]_vars

TypeOK ==
    /\ pc \in [Procs -> {"idle", "ensure_users", "insert_events",
                         "update_retention", "commit",
                         "fb_upsert", "fb_flush", "fb_finish", "decorators",
                         "done"}]
    /\ \A p \in Procs : ret[p] \in -1..MaxBatch
    /\ calls \in 0..MaxCalls
    /\ faults \in 0..MaxFaults

\* ------------------------------------------------------------- properties
Done(p) == pc[p] = "done" /\ ret[p] >= 0

\* The call of p has returned and no call was started after it.
DoneLast(p) == Done(p) /\ seq[p] = calls

BatchIds(p) == {batch[p][i].event_id : i \in 1..Len(batch[p])}

StoredOnce(id) == Cardinality({r \in events : r.event_id = id}) = 1

RECURSIVE FallbackOutcome(_, _, _, _)
\* _insert_events_individual_simple run alone on batch b against the stored
\* identifiers: the identifiers stored afterwards and the count returned.
\* `pending` are the identifiers flushed and not rolled back, n the counter.
FallbackOutcome(b, stored, pending, n) ==
    IF b = << >>
    THEN [ids |-> IF n > 0 THEN stored \cup pending ELSE stored, count |-> n]
    ELSE IF Head(b).event_id \in stored \cup pending
    THEN FallbackOutcome(Tail(b), stored, {}, n)
    ELSE FallbackOutcome(Tail(b), stored,
                         pending \cup {Head(b).event_id}, n + 1)

\* ingest_events run alone on batch b with no store error.
IngestOutcome(b, stored) ==
    IF b = << >> THEN [ids |-> stored, count |-> 0]
    ELSE IF \/ \E i, j \in 1..Len(b) : i < j /\ b[i].event_id = b[j].event_id
            \/ \E i \in 1..Len(b) : b[i].event_id \in stored
    THEN FallbackOutcome(b, stored, {}, 0)
    ELSE [ids   |-> stored \cup {b[i].event_id : i \in 1..Len(b)},
          count |-> Len(b)]

\* C1: in every reachable state, under any interleaving of ingest calls on
\* either path, no two Event rows carry the same event identifier.
C1_UniqueEventIds ==
    \A r1, r2 \in events : r1.event_id = r2.event_id => r1 = r2

\* A call that met an identifier another call had stored went through the
\* fallback and returned, the identifier being stored.
C1_Witness ==
    \E p \in Procs :
        /\ Done(p) /\ path[p] = "fallback" /\ cause[p] = "duplicate"
        /\ ~RepeatedInBatch(batch[p])
        /\ \E id \in BatchIds(p) : UniqueEventId(events, id)

\* C2: with no other writer (and no store error besides duplicates), the
\* count an ingest call returns is the number of Event rows in the store
\* after the call that were not there before it.
C2_CountIsCommitted ==
    \A p \in Procs :
        (DoneLast(p) /\ faults = 0)
        => ret[p] = Cardinality(events \ before[p].events)

\* C3: after a fallback (no store error besides duplicates), every event of
\* the batch whose identifier was not stored before and is not repeated
\* earlier in the batch is in the store, wherever the duplicates stand.
C3_FallbackKeepsNewEvents ==
    \A p \in Procs :
        (Done(p) /\ path[p] = "fallback" /\ cause[p] = "duplicate"
                 /\ faults = 0)
        => \A i \in 1..Len(batch[p]) :
              (/\ ~UniqueEventId(before[p].events, batch[p][i].event_id)
               /\ \A j \in 1..(i - 1) :
                      batch[p][j].event_id # batch[p][i].event_id)
              => UniqueEventId(events, batch[p][i].event_id)

\* C4: when ingest(B) has returned and B is ingested again (no store error),
\* the second call returns 0 and adds no Event row, and every identifier of B
\* is stored exactly once.
C4_SecondIngestIsNoOp ==
    \A p, q \in Procs :
        (/\ p # q /\ Done(p) /\ DoneLast(q) /\ faults = 0
         /\ seq[q] = seq[p] + 1
         /\ batch[p] # << >> /\ batch[q] = batch[p])
        => /\ ret[q] = 0
           /\ events = before[q].events
           /\ \A id \in BatchIds(q) : StoredOnce(id)

\* C5: every Event row ingest persisted, on the batch path or through the
\* fallback, has a UserRetention row of the same user whose activity date is
\* the event's occurrence date.
C5_EventHasRetentionRow ==
    faults = 0
    => \A e \in events :
          \E r \in retention :
              r.user_id = e.user_id /\ r.activity_date = e.event_date

C7_FallbackOnlyOnDuplicate ==
    \A p \in Procs : path[p] = "fallback" => cause[p] = "duplicate"

\* C8: all UserRetention rows of one user carry one cohort date, whatever
\* batches were ingested later.
C8_OneCohortPerUser ==
    \A r1, r2 \in retention :
        r1.user_id = r2.user_id => r1.cohort_date = r2.cohort_date

C11_EmptyBatchNoCalls ==
    \A p \in Procs :
        (Done(p) /\ batch[p] = << >>) => (ret[p] = 0 /\ ops[p] = << >>)

\* C12: in every reachable state no two UserRetention rows share the triple
\* (user, cohort date, activity date), also when one batch holds several
\* events of one user on one day; and an ingest call whose batch was already
\* processed (every identifier stored before the call, no other call
\* running beside it) adds no UserRetention row.
C12_UniqueRetentionTriples ==
    /\ \A r1, r2 \in retention :
           (/\ r1.user_id = r2.user_id
            /\ r1.cohort_date = r2.cohort_date
            /\ r1.activity_date = r2.activity_date) => r1 = r2
    /\ \A p \in Procs :
           (/\ DoneLast(p) /\ overlapped[p] = {} /\ batch[p] # << >>
            /\ \A id \in BatchIds(p) : UniqueEventId(before[p].events, id))
           => retention = before[p].retention

\* A batch of two different events of one user on one day was ingested on the
\* batch path (one retention row for that day), then ingested again.
C12_Witness ==
    \E p \in Procs :
        /\ DoneLast(p) /\ overlapped[p] = {} /\ Len(batch[p]) = 2
        /\ batch[p][1].event_id # batch[p][2].event_id
        /\ batch[p][1].user_id = batch[p][2].user_id
        /\ batch[p][1].event_date = batch[p][2].event_date
        /\ \A id \in BatchIds(p) : UniqueEventId(before[p].events, id)
        /\ \E r \in retention :
               /\ r.user_id = batch[p][1].user_id
               /\ r.activity_date = batch[p][1].event_date

\* C13: under any interleaving of ingest calls the User table never holds two
\* rows for one user identifier, and it holds a row for every user that has
\* a committed event.
C13_OneUserRow ==
    /\ \A r1, r2 \in users : r1.user_id = r2.user_id => r1 = r2
    /\ \A e \in events : \E r \in users : r.user_id = e.user_id

\* Two calls that ran side by side, both with events of a user that had no
\* row when either started, have both committed events.
C13_Witness ==
    \E p, q \in Procs :
        /\ p # q /\ q \in overlapped[p] /\ Done(p) /\ Done(q)
        /\ ret[p] > 0 /\ ret[q] > 0
        /\ events # before[p].events /\ events # before[q].events
        /\ \E u \in user_ids[p] \cap user_ids[q] :
               /\ \A r \in before[p].users \cup before[q].users : r.user_id # u
               /\ \E r \in users : r.user_id = u

\* C14: when two ingest calls that each submit the one event with the same
\* identifier ran side by side (the identifier not stored before, no other
\* call, no store error), then after both returned the store holds exactly
\* one Event row for the identifier and the two counts sum to 1.
C14_ConcurrentSameEvent ==
    \A p, q \in Procs :
        (/\ p # q /\ Done(p) /\ Done(q) /\ calls = 2 /\ faults = 0
         /\ (q \in overlapped[p] \/ p \in overlapped[q])
         /\ Len(batch[p]) = 1 /\ batch[q] = batch[p]
         /\ ~UniqueEventId(before[p].events \cup before[q].events,
                           batch[p][1].event_id))
        => /\ StoredOnce(batch[p][1].event_id)
           /\ ret[p] + ret[q] = 1

\* Both calls have returned; the one that came second met the committed row
\* and went through the fallback.
C14_Witness ==
    \E p, q \in Procs :
        /\ p # q /\ Done(p) /\ Done(q) /\ calls = 2 /\ faults = 0
        /\ (q \in overlapped[p] \/ p \in overlapped[q])
        /\ Len(batch[p]) = 1 /\ batch[q] = batch[p]
        /\ ~UniqueEventId(before[p].events \cup before[q].events,
                          batch[p][1].event_id)
        /\ path[p] = "batch" /\ ret[p] = 1
        /\ path[q] = "fallback" /\ cause[q] = "duplicate" /\ ret[q] = 0

\* C15: for a user with no stored events, one batch ingested on the batch
\* path, its events in any order, yields for each event of that user a
\* retention row whose cohort date is the earliest occurrence date of the
\* user in the batch and whose offset is the event's date minus that date,
\* never negative.
C15_CohortIsBatchMinimum ==
    \A p \in Procs :
        (Done(p) /\ path[p] = "batch" /\ ret[p] > 0)
        => \A i \in 1..Len(batch[p]) :
              LET u    == batch[p][i].user_id
                  days == {batch[p][j].event_date :
                             j \in {k \in 1..Len(batch[p]) :
                                       batch[p][k].user_id = u}}
              IN  (\A e \in before[p].events : e.user_id # u)
                  => \E r \in retention :
                        /\ r.user_id = u
                        /\ r.activity_date = batch[p][i].event_date
                        /\ r.cohort_date \in days
                        /\ \A d \in days : r.cohort_date <= d
                        /\ r.retention_day =
                              batch[p][i].event_date - r.cohort_date
                        /\ r.retention_day >= 0

\* C16: the count an ingest call returns and the events stored after it are
\* determined by the batch and the store before the call alone, whether the
\* cache and the message bus are connected, disconnected or failing on every
\* operation; no cache or bus error reaches the caller (no exception, shown
\* as a count of -1).
C16_DependenciesDoNotMatter ==
    \A p \in Procs :
        (pc[p] = "done" /\ seq[p] = calls /\ faults = 0)
        => LET expected ==
                   IngestOutcome(batch[p],
                                 {e.event_id : e \in before[p].events})
           IN  /\ ret[p] = expected.count
               /\ {e.event_id : e \in events} = expected.ids

\* A batch was stored while Redis failed on every command of the
\* invalidation and the bus was failing.
C16_Witness ==
    \E p \in Procs :
        /\ DoneLast(p) /\ faults = 0 /\ ret[p] > 0
        /\ events # before[p].events
        /\ redis_connected /\ redis_failing /\ nats = "failing"
        /\ \E i \in 1..Len(ops[p]) : ops[p][i] = "delete_pattern"

\* C17: when no identifier of the batch is stored and none is repeated in the
\* batch (one client, no store error), ingest completes on the batch path
\* without fallback, returns the batch size, and every event of the batch is
\* stored.
C17_HappyPath ==
    \A p \in Procs :
        (/\ DoneLast(p) /\ faults = 0 /\ batch[p] # << >>
         /\ \A i \in 1..Len(batch[p]) :
                /\ \A e \in before[p].events :
                       e.event_id # batch[p][i].event_id
                /\ \A j \in 1..Len(batch[p]) :
                       batch[p][j].event_id = batch[p][i].event_id => j = i)
        => /\ path[p] = "batch"
           /\ ret[p] = Len(batch[p])
           /\ \A id \in BatchIds(p) : StoredOnce(id)

\* A batch of two new events was stored on the batch path in a store that
\* already held other events.
C17_Witness ==
    \E p \in Procs :
        /\ DoneLast(p) /\ faults = 0 /\ path[p] = "batch"
        /\ Len(batch[p]) = 2 /\ ret[p] = 2
        /\ before[p].events # {}
        /\ \A id \in BatchIds(p) : StoredOnce(id)

\* C18: each analytics query function first looks up the cache under a key
\* determined by its name and arguments, and on a miss with the cache
\* connected stores the result it computed from the store before returning.
C18_AnalyticsCached ==
    (last.outcome # "none" /\ "func" \in DOMAIN last)
    => /\ last.looked_up
       /\ last.outcome = "result" => last.stored

\* C19: an analytics query that finds table user_retention missing, or no
\* row for the requested cohort, user or range, returns an empty structured
\* result: it neither raises nor returns an error value.
C19_AnalyticsDegrade ==
    (/\ last.outcome # "none" /\ "func" \in DOMAIN last
     /\ last.func \in AnalyticsFuncs /\ last.rows = 0)
    => (last.outcome = "result" /\ last.value = {})

\* C20: within one ingest call on the batch path the steps occur in this
\* order: user upsert, event insert, retention derivation, commit, cache
\* invalidation.  The earliest-date read of the derivation sees the events
\* the call has just inserted (no retention row it writes has a cohort date
\* after one of these events), and no cache pattern is deleted before the
\* commit.
C20_BatchStepOrder ==
    \A p \in Procs :
        /\ (Done(p) /\ path[p] = "batch" /\ ret[p] > 0)
           => /\ SubSeq(ops[p], 1, 5) =
                    <<"upsert_users", "insert_events", "select_first_events",
                      "insert_retention", "commit">>
              /\ Len(ops[p]) > 5
              /\ \A i \in 6..Len(ops[p]) : ops[p][i] = "delete_pattern"
        /\ pc[p] = "commit"
           => \A r \in tx[p].retention :
                 \A e \in tx[p].events :
                    e.user_id = r.user_id => r.cohort_date <= e.occurred_date
        /\ path[p] = "batch"
           => \A i \in 1..Len(ops[p]) :
                 ops[p][i] = "delete_pattern"
                 => \E j \in 1..(i - 1) : ops[p][j] = "commit"

\* A call that ran beside another one stored a batch of two events of one
\* new user, the later event first, and has invalidated the cache.
C20_Witness ==
    \E p \in Procs :
        /\ Done(p) /\ path[p] = "batch" /\ ret[p] = 2
        /\ overlapped[p] # {}
        /\ batch[p][1].user_id = batch[p][2].user_id
        /\ batch[p][1].occurred_date > batch[p][2].occurred_date
        /\ \A e \in before[p].events : e.user_id # batch[p][1].user_id
        /\ ops[p][Len(ops[p])] = "delete_pattern"

\* Events of the call's batch whose row the call committed.
Accepted(p) ==
    {i \in 1..Len(batch[p]) :
        \E r \in events \ before[p].events :
            r.event_id = batch[p][i].event_id}

\* C21: after a call that accepted at least one event, on either path and
\* with the cache connected, delete_pattern was issued for both per-user
\* patterns of every user with an accepted event and for the six global
\* patterns (cohort list, retention, DAU, top events, user stats, ingestion
\* metrics).
C21_InvalidationIssued ==
    \A p \in Procs :
        (pc[p] = "done" /\ ret[p] > 0 /\ redis_connected)
        => /\ \A i \in Accepted(p) :
                  {<<"user_stats", batch[p][i].user_id>>,
                   <<"user_retention", batch[p][i].user_id>>}
                  \subseteq deleted[p]
           /\ {<<"cohorts", "list">>, <<"retention">>, <<"dau">>,
               <<"top_events">>, <<"user_stats">>, <<"ingestion_metrics">>}
              \subseteq deleted[p]

\* A fallback call accepted an event and issued the per-user deletes.
C21_Witness ==
    \E p \in Procs :
        /\ pc[p] = "done"
        /\ ret[p] > 0
        /\ path[p] = "fallback"
        /\ Accepted(p) # {}
        /\ <<"user_retention", batch[p][1].user_id>> \in deleted[p]

\* Users for whom the call issued a per-user pattern delete.
InvalidatedUsers(p) ==
    {pat[2] : pat \in {x \in deleted[p] :
                          /\ Len(x) = 2
                          /\ x[1] \in {"user_stats", "user_retention"}}}

\* Number of db.commit() calls of the session's current call.
Commits(p) == Cardinality({i \in 1..Len(ops[p]) : ops[p][i] = "commit"})

\* C22: a fallback call commits once, after all events were processed, and
\* the per-user invalidation that follows is issued exactly for the users of
\* the events the call inserted, not for users whose events were all
\* skipped.  Stated for calls without store errors whose count equals the
\* rows they committed.
C22_FallbackInvalidatesInsertedUsers ==
    \A p \in Procs :
        (/\ DoneLast(p)
         /\ path[p] = "fallback"
         /\ faults = 0
         /\ ret[p] > 0
         /\ ret[p] = Cardinality(events \ before[p].events))
        => /\ Commits(p) = 1
           /\ \A i \in 1..Len(ops[p]) :
                  ops[p][i] \in {"upsert_user", "flush"}
                  => \E j \in (i + 1)..Len(ops[p]) : ops[p][j] = "commit"
           /\ InvalidatedUsers(p) =
                  {batch[p][i].user_id : i \in Accepted(p)}

\* C23: no step of an ingest call, on either path and whether the call
\* succeeds or fails, modifies or deletes an Event row or a UserRetention
\* row: every row of the two tables is still there after the step and no
\* other row carries its primary key.
C23_IngestOnlyAddsRows ==
    [][/\ \A r \in events :
              /\ r \in events'
              /\ \A r2 \in events' : r2.id = r.id => r2 = r
       /\ \A r \in retention :
              /\ r \in retention'
              /\ \A r2 \in retention' : r2.id = r.id => r2 = r]_vars

\* A fallback call that found rows in both tables has added an event row.
C23_Witness ==
    \E p \in Procs :
        /\ DoneLast(p)
        /\ path[p] = "fallback"
        /\ before[p].events # {}
        /\ before[p].retention # {}
        /\ before[p].events \subseteq events
        /\ before[p].events # events
        /\ before[p].retention \subseteq retention

\* C24: every UserRetention row has retention_day = activity date minus
\* cohort date in whole days, and retention_day is 0 or positive, also for
\* rows of a backfilled batch whose events predate the user's earlier
\* cohort date.
C24_RetentionDayNonNegative ==
    \A r \in retention :
        /\ r.retention_day = r.activity_date - r.cohort_date
        /\ r.retention_day >= 0

\* C25: for every cohort date and window count w, in every store state
\* reachable by ingest calls, the retention curve either reports zero cohort
\* users with no windows or has exactly w + 1 windows for the day offsets
\* 0..w, each with retained users at most the cohort total (rate between 0
\* and 100 percent); a cohort date that has retention rows never reports
\* zero cohort users.
C25_RetentionCurve ==
    \A d \in Days : \A w \in 0..MaxWindows :
        LET c == retention_curve(d, w)
        IN  /\ \/ c.total_users = 0 /\ c.data = << >>
               \/ /\ c.total_users > 0
                  /\ Len(c.data) = w + 1
                  /\ \A i \in 1..(w + 1) :
                         /\ c.data[i].window = i - 1
                         /\ c.data[i].retained_users <= c.total_users
                         /\ c.data[i].retention_rate >= 0
                         /\ c.data[i].retention_rate <= 10000
            /\ (\E r \in retention : r.cohort_date = d) => c.total_users > 0

\* C26: events are handed to the message bus only when ingest has returned
\* a count above zero, and every published event is in the event store at
\* that time; a request whose ingest returned 0 publishes nothing.  Stated
\* for behaviours without store errors.
C26_PublishedAreStored ==
    [][faults' = 0
       => /\ published' \subseteq {r.event_id : r \in events'}
          /\ published' # published
             => \E p \in Procs : /\ pc[p] = "done"
                                 /\ pc'[p] = "idle"
                                 /\ ret[p] > 0]_vars

\* C27: a guarded operation (write for ingestion, read for analytics, admin
\* for key management) runs only when the presented key is active, not
\* expired and carries the required permission; once revoke_key has
\* succeeded for a key, every later validation of that key is rejected.
C27_GuardedOnlyWithValidKey ==
    [][auth_calls' # auth_calls
       => LET x  == auth_last'
              ks == {k \in api_keys : k.key_hash = <<"sha256", x.key>>}
          IN  /\ x.status = 200
                 => \E k \in ks :
                        /\ k.is_active
                        /\ k.expires_at = NoExpiry \/ k.expires_at >= now
                        /\ x.perm \in k.permissions
              /\ (\E k \in ks : k.id \in revoked) => x.status = 401]_vars

\* A key that carries the permission asked for and has not expired is
\* presented after its revocation, and is rejected.
C27_Witness ==
    /\ auth_last.status = 401
    /\ \E k \in api_keys :
          /\ k.key_hash = <<"sha256", auth_last.key>>
          /\ k.id \in revoked
          /\ auth_last.perm \in k.permissions
          /\ k.expires_at = NoExpiry \/ k.expires_at >= now

\* C28: create-admin-key creates an admin key only when no active key with
\* the admin permission exists: under any interleaving of concurrent
\* requests at most one initial admin key is active, and a request made
\* while an active admin key exists creates none.
C28_OneInitialAdminKey ==
    [][/\ Cardinality({k \in api_keys' : /\ k.user_id = "system_admin"
                                         /\ k.is_active}) <= 1
       /\ \A k \in api_keys' :
              (/\ k.user_id = "system_admin"
               /\ ~\E j \in api_keys : j.id = k.id)
              => ~\E j \in api_keys : /\ j.is_active
                                      /\ "admin" \in j.permissions]_vars

\* C29: after any sequence of consume calls the token count is between 0
\* and capacity; consume(n) returns true and removes n tokens exactly when
\* at least n tokens are available after the refill, otherwise it returns
\* false and removes none; a POST /events refused by the limiter does not
\* call ingest.
C29_TokenBucket ==
    [][/\ 0 <= tokens' /\ tokens' <= Capacity
       /\ consumed'.count # consumed.count
          => LET time_passed == last_refill' - last_refill
                 available   == IF tokens + time_passed * RefillRate > Capacity
                                THEN Capacity
                                ELSE tokens + time_passed * RefillRate
             IN  /\ consumed'.result = (available >= consumed'.n)
                 /\ tokens' = IF consumed'.result
                              THEN available - consumed'.n ELSE available
                 /\ (consumed'.caller = "post_events" /\ ~consumed'.result)
                    => calls' = calls]_vars

\* C30: process_event acknowledges every message, never stores a second
\* Event row for an identifier already stored (also when two workers handle
\* the same identifier at the same time), and after a message whose insert
\* or commit failed it still persists every later valid, non-duplicate
\* message: a handled valid message whose own insert did not fail has its
\* row in the store.
C30_WorkerPersistsValidMessages ==
    /\ \A h \in handled : h.acked
    /\ \A r1, r2 \in events : r1.event_id = r2.event_id => r1 = r2
    /\ \A h \in handled :
          (h.event_id \in EventIds /\ h.outcome # "insert_failed")
          => \E r \in events : r.event_id = h.event_id

====
